---- MODULE Spec2Model ----
(***************************************************************************)
(* Model of the tierforge spell-catalog scripts:                           *)
(*   scripts/scrape_all_spells.py     the scrape passes and the combo merge *)
(*   scripts/apply_combo_schools.py   the contrast pass over the catalog    *)
(*   scripts/batch_fetch_infoboxes.py the infobox batch                     *)
(* The persisted catalog data/spells.json is the shared state.  Python      *)
(* dicts are modelled as insertion-ordered sequences of [k, v] entries.     *)
(* The source's Russian string literals are written transliterated.         *)
(***************************************************************************)
EXTENDS Naturals, Sequences, FiniteSets, TLC

VARIABLES
    wiki,               \* what the wiki serves: the listings and the skill pages
    fileState,          \* data/spells.json on disk: "absent", "ok" or "corrupt"
    catalog,            \* its "schools" object when fileState = "ok"
    backupState,        \* data/spells.json.bak on disk: "absent" or "ok"
    backup,             \* its "schools" object when backupState = "ok"
    pc,                 \* which script runs and where it is; "idle" between scripts
    EXISTING_MAPPINGS,  \* scrape_all_spells.py module global (ru_name -> en_name)
    data,               \* main(): data["schools"] being built by the scrape
    schools,            \* scrape_schools(): local schools dict
    target_school,      \* scrape_schools(): school whose page is being read
    processed_urls,     \* scrape_schools(): school urls already visited
    all_spells,         \* scrape_special_skills()/scrape_combo_skills(): local dict
    spell_lookup,       \* main(): name -> list of school keys
    fixed_count,        \* apply_combo_schools.main(): change counter of the last run
    stdout,             \* diagnostics printed by the script that ran last
    pos,                \* how far the running scrape has read the listings
    batch,              \* batch_fetch_infoboxes.main(): locals of the batch
    infoboxes           \* data/infoboxes.json on disk

vars == <<wiki, fileState, catalog, backupState, backup, pc, EXISTING_MAPPINGS, data,
          schools, target_school, processed_urls, all_spells, spell_lookup,
          fixed_count, stdout, pos, batch, infoboxes>>

----------------------------------------------------------------------------
(* Bounds of the model *)

MaxRows == 2        \* skill rows of the wiki's listings, all passes together
MaxPages == 2       \* school links of the main skills page

----------------------------------------------------------------------------
(* Python values *)

None == "None"

(* School keys: apply_combo_schools.py lines 7-16 *)
AERO == "Aeroteurgiya"
GEO == "Geomantiya"
HYDRO == "Gidrosofistika"
PYRO == "Pirokinetika"
NECRO == "Nekromantiya"
POLY == "Prevrashchenie"
HUNT == "Masterstvo okhoty"
SCOUNDREL == "Iskusstvo ubiystva"
SUMMON == "Prizyvanie"
WARFARE == "Voennoe delo"

special_school == "Osobye navyki"
combo_school == "Kombinirovannye navyki"

(* RU_TO_EN_SCHOOL: the reverse of SCHOOL_NAME_MAP *)
RU_TO_EN_SCHOOL ==
    (AERO :> "Aerotheurge") @@ (WARFARE :> "Warfare") @@ (GEO :> "Geomancer") @@
    (HYDRO :> "Hydrosophist") @@ (SCOUNDREL :> "Scoundrel") @@ (HUNT :> "Huntsman") @@
    (NECRO :> "Necromancer") @@ (PYRO :> "Pyrokinetic") @@ (POLY :> "Polymorph") @@
    (SUMMON :> "Summoning")

(* DUAL_MAP: skill name -> [school A, school B] *)
DUAL_MAP ==
    ("Breathing Bubble" :> <<AERO, WARFARE>>) @@
    ("Mass Breathing Bubbles" :> <<AERO, WARFARE>>) @@
    ("Erratic Wisp" :> <<AERO, HUNT>>) @@
    ("Evasive Aura" :> <<AERO, HUNT>>) @@
    ("Smoke Cover" :> <<AERO, SCOUNDREL>>) @@
    ("Blessed Smoke Cloud" :> <<AERO, SCOUNDREL>>) @@
    ("Vaporize" :> <<AERO, POLY>>) @@
    ("Jellyfish Skin" :> <<AERO, POLY>>) @@
    ("Electric Infusion" :> <<AERO, SUMMON>>) @@
    ("Cursed Electric Infusion" :> <<AERO, SUMMON>>) @@
    ("Vacuum Touch" :> <<AERO, NECRO>>) @@
    ("Vacuum Aura" :> <<AERO, NECRO>>) @@
    ("Oily Carapace" :> <<GEO, WARFARE>>) @@
    ("Mass Oily Carapace" :> <<GEO, WARFARE>>) @@
    ("Throw Dust" :> <<GEO, HUNT>>) @@
    ("Dust Blast" :> <<GEO, HUNT>>) @@
    ("Venom Coating" :> <<GEO, SCOUNDREL>>) @@
    ("Venomous Aura" :> <<GEO, SCOUNDREL>>) @@
    ("Turn to Oil" :> <<GEO, POLY>>) @@
    ("Poisonous Skin" :> <<GEO, POLY>>) @@
    ("Poison Infusion" :> <<GEO, SUMMON>>) @@
    ("Acid Infusion" :> <<GEO, SUMMON>>) @@
    ("Corrosive Touch" :> <<GEO, NECRO>>) @@
    ("Corrosive Spray" :> <<GEO, NECRO>>) @@
    ("Cleanse Wounds" :> <<HYDRO, WARFARE>>) @@
    ("Mass Cleanse Wounds" :> <<HYDRO, WARFARE>>) @@
    ("Cryotherapy" :> <<HYDRO, HUNT>>) @@
    ("Mass Cryotherapy" :> <<HYDRO, HUNT>>) @@
    ("Vampiric Hunger" :> <<HYDRO, SCOUNDREL>>) @@
    ("Vampiric Hunger Aura" :> <<HYDRO, SCOUNDREL>>) @@
    ("Healing Tears" :> <<HYDRO, POLY>>) @@
    ("Icy Skin" :> <<HYDRO, POLY>>) @@
    ("Water Infusion" :> <<HYDRO, SUMMON>>) @@
    ("Ice Infusion" :> <<HYDRO, SUMMON>>) @@
    ("Raining Blood" :> <<HYDRO, NECRO>>) @@
    ("Blood Storm" :> <<HYDRO, NECRO>>) @@
    ("Sparking Swings" :> <<PYRO, WARFARE>>) @@
    ("Master of Sparks" :> <<PYRO, WARFARE>>) @@
    ("Throw Explosive Trap" :> <<PYRO, HUNT>>) @@
    ("Deploy Mass Traps" :> <<PYRO, HUNT>>) @@
    ("Sabotage" :> <<PYRO, SCOUNDREL>>) @@
    ("Mass Sabotage" :> <<PYRO, SCOUNDREL>>) @@
    ("Bleed Fire" :> <<PYRO, POLY>>) @@
    ("Flaming Skin" :> <<PYRO, POLY>>) @@
    ("Fire Infusion" :> <<PYRO, SUMMON>>) @@
    ("Necrofire Infusion" :> <<PYRO, SUMMON>>) @@
    ("Corpse Explosion" :> <<PYRO, NECRO>>) @@
    ("Mass Corpse Explosion" :> <<PYRO, NECRO>>)

----------------------------------------------------------------------------
(* Python dict, insertion ordered: a sequence of entries [k |-> key, v |-> value] *)

EmptyDict == <<>>

Keys(d) == {d[i].k : i \in DOMAIN d}

Has(d, key) == \E i \in DOMAIN d : d[i].k = key

(* d[key] *)
Get(d, key) == d[CHOOSE i \in DOMAIN d : d[i].k = key].v

(* d.get(key): None when the key is absent *)
GetOrNone(d, key) == IF Has(d, key) THEN Get(d, key) ELSE None

(* d[key] = value: an existing key keeps its position *)
Put(d, key, value) ==
    IF Has(d, key)
    THEN [i \in DOMAIN d |-> IF d[i].k = key THEN [k |-> key, v |-> value] ELSE d[i]]
    ELSE Append(d, [k |-> key, v |-> value])

(* d.update(e) *)
RECURSIVE UpdateFrom(_, _, _)
UpdateFrom(d, e, i) ==
    IF i > Len(e) THEN d ELSE UpdateFrom(Put(d, e[i].k, e[i].v), e, i + 1)

Update(d, e) == UpdateFrom(d, e, 1)

(* rec.get(field) of a record whose field may be missing *)
Field(rec, f) == IF f \in DOMAIN rec THEN rec[f] ELSE None

----------------------------------------------------------------------------
(* What the wiki serves.  Strings the code only transforms are tabulated    *)
(* over the strings the model reads.                                        *)

(* the name links of the skill rows, as served: link text and href *)
NameLinks == {<<"Vzryv trupa", "/wiki/a">>, <<"Vzryv trupa", "/wiki/b">>,
              <<"Bless(o)", "/wiki/a">>}

(* English names a skill page can state *)
PageNames == {"Corpse Explosion", "Bless"}

(* a colspan header cell's text *)
HeaderTexts == {"Novice"}

(* ru_name.replace(deg, "").replace("[DE]", "").strip() *)
StripGeneral(text) ==
    CASE text = "Bless(o)" -> "Bless"
      [] text = "Vzryv trupa(o)" -> "Vzryv trupa"
      [] text = "Vzryv trupa [DE]" -> "Vzryv trupa"
      [] OTHER -> text

(* get_text(strip=True).replace(deg, "").strip(), then re.sub of "(navyk)" *)
StripCombo(text) ==
    CASE text = "Bless(o)" -> "Bless"
      [] text = "Vzryv trupa(o)" -> "Vzryv trupa"
      [] text = "Vzryv trupa (navyk)" -> "Vzryv trupa"
      [] OTHER -> text

(* len(text) > 3 of a header text *)
LongerThan3(text) == text \notin {"", "I", "II", "III"}

(* urljoin(BASE_URL, href) *)
RuUrl(href) ==
    CASE href = "/wiki/a" -> "https://divinity.fandom.com/wiki/a"
      [] href = "/wiki/b" -> "https://divinity.fandom.com/wiki/b"
      [] OTHER -> "https://divinity.fandom.com/ru/wiki/"

(* f"https://divinityoriginalsin2.wiki.fextralife.com/{quote(en_name)}" *)
FextraUrl(en_name) ==
    CASE en_name = "Corpse Explosion" ->
             "https://divinityoriginalsin2.wiki.fextralife.com/Corpse%20Explosion"
      [] en_name = "Bless" -> "https://divinityoriginalsin2.wiki.fextralife.com/Bless"
      [] en_name = "Vzryv trupa" ->
             "https://divinityoriginalsin2.wiki.fextralife.com/Vzryv%20trupa"
      [] OTHER -> "https://divinityoriginalsin2.wiki.fextralife.com/"

(* A site maps the url of a skill page to what get_soup and                 *)
(* extract_english_name yield for it: the English name the page states, or  *)
(* None when the fetch fails or the page states none.                       *)

(* variant: the name the page states is taken before the lookup's entry *)
ResolveName_FetchFirst(ru_name, ru_url, mappings, site) ==
    LET mapped == GetOrNone(mappings, ru_name)
        fetched == IF site[ru_url] = None THEN mapped ELSE site[ru_url]
    IN  IF fetched = None THEN ru_name ELSE fetched

(* The name resolution of a row: lines 132-146 and 290-302 *)
ResolveName(ru_name, ru_url, mappings, site) ==
    LET mapped == GetOrNone(mappings, ru_name)
        fetched == IF mapped = None THEN site[ru_url] ELSE mapped
    IN  IF fetched = None THEN ru_name ELSE fetched

(* en_url: lines 149 and 305 *)
EnUrl(en_name, ru_name) == IF en_name # ru_name THEN FextraUrl(en_name) ELSE ""

(* parse_skill_table: one row applied to (spells, current_tier) *)
ParseRow(row, acc, default_school, mappings, site) ==
    IF row.kind = "header"
    THEN [acc EXCEPT !.current_tier =
              IF row.text # "" /\ LongerThan3(row.text) THEN row.text ELSE @]
    ELSE LET ru_name == StripGeneral(row.text)
             ru_url == RuUrl(row.href)
             en_name == ResolveName(ru_name, ru_url, mappings, site)
         IN  [acc EXCEPT !.spells = Put(@, en_name,
                  [ru_name |-> ru_name,
                   ru_url |-> ru_url,
                   en_name |-> en_name,
                   en_url |-> EnUrl(en_name, ru_name),
                   tier |-> acc.current_tier,
                   primary_school |-> default_school])]

RECURSIVE ParseRows(_, _, _, _, _, _)
ParseRows(table, i, acc, default_school, mappings, site) ==
    IF i > Len(table) THEN acc
    ELSE ParseRows(table, i + 1, ParseRow(table[i], acc, default_school, mappings, site),
                   default_school, mappings, site)

parse_skill_table(table, default_school, mappings, site) ==
    ParseRows(table, 1, [spells |-> EmptyDict, current_tier |-> "Neizvestno"],
              default_school, mappings, site).spells

----------------------------------------------------------------------------
(* scrape_all_spells.py *)

(* load_existing_mappings: ru_name -> en_name over every stored spell, a    *)
(* later spell with the same ru_name replacing an earlier one               *)
RECURSIVE MapSpells(_, _, _)
MapSpells(mapping, spells, j) ==
    IF j > Len(spells) THEN mapping
    ELSE LET ru_name == Field(spells[j].v, "ru_name")
         IN  MapSpells(IF ru_name # None /\ ru_name # ""
                       THEN Put(mapping, ru_name, spells[j].k) ELSE mapping,
                       spells, j + 1)

RECURSIVE MapSchools(_, _, _)
MapSchools(mapping, cat, i) ==
    IF i > Len(cat) THEN mapping
    ELSE MapSchools(MapSpells(mapping, cat[i].v.spells, 1), cat, i + 1)

load_existing_mappings(state, cat) ==
    IF state = "ok" THEN MapSchools(EmptyDict, cat, 1) ELSE EmptyDict

(* the links of the main skills page that scrape_schools follows *)
SchoolLinks ==
    {[text |-> PYRO, href |-> "/wiki/Pyro"],
     [text |-> NECRO, href |-> "/wiki/Necro"]}

(* urljoin(BASE_URL, href) of a school link *)
SchoolUrl(href) ==
    CASE href = "/wiki/Pyro" -> "https://divinity.fandom.com/wiki/Pyro"
      [] href = "/wiki/Necro" -> "https://divinity.fandom.com/wiki/Necro"
      [] href = "/wiki/Pyro_school" -> "https://divinity.fandom.com/wiki/Pyro_school"
      [] OTHER -> "https://divinity.fandom.com/ru/wiki/"

(* lines 179-186: the link text is a school name, or contains one *)
TargetSchool(text) ==
    IF text \in DOMAIN RU_TO_EN_SCHOOL THEN text
    ELSE CASE text = "Shkola Pirokinetika" -> PYRO
           [] OTHER -> None

(* scrape_schools, one link: lines 175-200 *)
ScanLink(st, link) ==
    LET target == TargetSchool(link.text)
        school_url == SchoolUrl(link.href)
    IN  IF target = None \/ school_url \in st.processed_urls
        THEN [st EXCEPT !.target_school = None]
        ELSE [schools |-> Put(st.schools, target,
                              [ru_url |-> school_url,
                               en_name |-> RU_TO_EN_SCHOOL[target],
                               spells |-> EmptyDict]),
              target_school |-> target,
              processed_urls |-> st.processed_urls \cup {school_url}]

(* schools[key]["spells"].update(spells) *)
UpdateSpells(d, key, spells) ==
    Put(d, key, [Get(d, key) EXCEPT !.spells = Update(@, spells)])

(* schools[key]["spells"][name] = spell *)
SetSpell(d, key, name, spell) ==
    Put(d, key, [Get(d, key) EXCEPT !.spells = Put(@, name, spell)])

(* scrape_schools, one table of the current school page: lines 208-215 *)
ScanTable(st, table, mappings, site) ==
    [st EXCEPT !.schools = UpdateSpells(@, st.target_school,
         parse_skill_table(table, st.target_school, mappings, site))]

(* scrape_special_skills' return value: line 236 *)
SpecialSection(spells) ==
    <<[k |-> special_school, v |-> [en_name |-> "Special", spells |-> spells]]>>

(* main, lines 354-360: name -> list of the school keys holding it *)
RECURSIVE LookupSpells(_, _, _, _)
LookupSpells(lookup, school_key, spells, j) ==
    IF j > Len(spells) THEN lookup
    ELSE LookupSpells(
             Put(lookup, spells[j].k,
                 Append(IF Has(lookup, spells[j].k) THEN Get(lookup, spells[j].k)
                        ELSE <<>>, school_key)),
             school_key, spells, j + 1)

RECURSIVE LookupSchools(_, _, _)
LookupSchools(lookup, d, i) ==
    IF i > Len(d) THEN lookup
    ELSE LookupSchools(IF d[i].k = combo_school THEN lookup
                       ELSE LookupSpells(lookup, d[i].k, d[i].v.spells, 1),
                       d, i + 1)

BuildLookup(d) == LookupSchools(EmptyDict, d, 1)

(* the (school 1, school 2) columns of a combo row *)
SchoolPairs == {<<PYRO, NECRO>>, <<"Istochnik", NECRO>>}

(* next((k for k in RU_TO_EN_SCHOOL if k in cell), cell): lines 287-288 *)
CleanSchool(cell) ==
    IF cell \in DOMAIN RU_TO_EN_SCHOOL THEN cell
    ELSE CASE cell = "Pirokinetika 2" -> PYRO
           [] OTHER -> cell

(* scrape_combo_skills, one row: lines 279-316 *)
ComboSpell(row, mappings, site) ==
    LET ru_name == StripCombo(row.text)
        ru_url == RuUrl(row.href)
        en_name == ResolveName(ru_name, ru_url, mappings, site)
    IN  [ru_name |-> ru_name,
         ru_url |-> ru_url,
         en_name |-> en_name,
         en_url |-> EnUrl(en_name, ru_name),
         tier |-> "Kombinirovannye",
         primary_school |-> CleanSchool(row.school1),
         secondary_school |-> CleanSchool(row.school2),
         is_combo |-> TRUE]

ScanComboRow(spells, row, mappings, site) ==
    LET spell == ComboSpell(row, mappings, site)
    IN  Put(spells, spell.en_name, spell)

(* main, lines 381-386: an existing entry takes the combo data *)
UpdateEntry(current_entry, spell_data) ==
    LET flagged == ("is_combo" :> TRUE) @@
                   ("secondary_school" :> spell_data.secondary_school) @@
                   current_entry
    IN  IF Field(flagged, "en_url") \in {None, ""} /\ Field(spell_data, "en_url") \notin {None, ""}
        THEN ("en_url" :> spell_data.en_url) @@ flagged
        ELSE flagged

RECURSIVE UpdateFound(_, _, _, _, _)
UpdateFound(d, found_schools, name, spell_data, i) ==
    IF i > Len(found_schools) THEN d
    ELSE UpdateFound(
             SetSpell(d, found_schools[i], name,
                      UpdateEntry(Get(Get(d, found_schools[i]).spells, name), spell_data)),
             found_schools, name, spell_data, i + 1)

(* variant: a combo spell found nowhere always goes to the bucket *)
AddOrphan_AlwaysBucket(d, name, spell_data) ==
    LET e == IF Has(d, combo_school) THEN d
             ELSE Put(d, combo_school, [en_name |-> "Crafted", spells |-> EmptyDict])
    IN  SetSpell(e, combo_school, name, spell_data)

(* main, lines 387-397: a combo spell found nowhere *)
AddOrphan(d, name, spell_data) ==
    LET primary == Field(spell_data, "primary_school")
    IN  IF primary \notin {None, ""} /\ Has(d, primary)
        THEN SetSpell(d, primary, name, spell_data)
        ELSE LET e == IF Has(d, combo_school) THEN d
                      ELSE Put(d, combo_school, [en_name |-> "Crafted", spells |-> EmptyDict])
             IN  SetSpell(e, combo_school, name, spell_data)

(* main, lines 371-397: one combo spell merged *)
MergeOne(d, lookup, name, spell_data) ==
    LET found_schools == IF Has(lookup, name) THEN Get(lookup, name) ELSE <<>>
    IN  IF found_schools # <<>>
        THEN UpdateFound(d, found_schools, name, spell_data, 1)
        ELSE AddOrphan(d, name, spell_data)

RECURSIVE MergeFrom(_, _, _, _)
MergeFrom(d, lookup, combo_spells, i) ==
    IF i > Len(combo_spells) THEN d
    ELSE MergeFrom(MergeOne(d, lookup, combo_spells[i].k, combo_spells[i].v),
                   lookup, combo_spells, i + 1)

MergeCombo(d, lookup, combo_spells) == MergeFrom(d, lookup, combo_spells, 1)

(* main, lines 389-394: the warning printed for a combo spell found nowhere *)
(* whose primary school is no school of data                                *)
MergeWarning(d, lookup, name, spell_data) ==
    LET primary == Field(spell_data, "primary_school")
    IN  IF Has(lookup, name) \/ (primary \notin {None, ""} /\ Has(d, primary))
        THEN <<>>
        ELSE <<[kind |-> "Warning", primary |-> primary, name |-> name]>>

(* the warnings of the whole merge, in order *)
RECURSIVE MergeLogFrom(_, _, _, _)
MergeLogFrom(d, lookup, combo_spells, i) ==
    IF i > Len(combo_spells) THEN <<>>
    ELSE MergeWarning(d, lookup, combo_spells[i].k, combo_spells[i].v) \o
         MergeLogFrom(MergeOne(d, lookup, combo_spells[i].k, combo_spells[i].v),
                      lookup, combo_spells, i + 1)

MergeLog(d, lookup, combo_spells) == MergeLogFrom(d, lookup, combo_spells, 1)

----------------------------------------------------------------------------
(* apply_combo_schools.py *)

(* lines 98-112: the secondary a combo spell must carry *)
(* variant: the second member of the pair, whatever the primary school *)
TargetSecondary_SecondMember(components, current_primary) ==
    components[2]

(* variant: the first member of the pair when the primary is outside it *)
TargetSecondary_FallbackFirst(components, current_primary) ==
    IF current_primary \in {components[1], components[2]}
    THEN IF components[1] # current_primary THEN components[1] ELSE components[2]
    ELSE components[1]

TargetSecondary(components, current_primary) ==
    IF current_primary \in {components[1], components[2]}
    THEN IF components[1] # current_primary THEN components[1] ELSE components[2]
    ELSE components[2]

(* variant: a fix also makes the first member of the pair the primary *)
FixSpell_SetsPrimary(acc, key, spell) ==
    LET en_name == IF "en_name" \in DOMAIN spell THEN spell.en_name ELSE key
    IN  IF en_name \notin DOMAIN DUAL_MAP
        THEN [acc EXCEPT !.spells = Append(@, [k |-> key, v |-> spell])]
        ELSE LET current_primary == Field(spell, "primary_school")
                 target_secondary == TargetSecondary(DUAL_MAP[en_name], current_primary)
             IN  IF Field(spell, "secondary_school") # target_secondary
                 THEN [spells |-> Append(acc.spells,
                           [k |-> key,
                            v |-> ("primary_school" :> DUAL_MAP[en_name][1]) @@
                                  ("secondary_school" :> DUAL_MAP[en_name][2]) @@
                                  ("is_combo" :> TRUE) @@ spell]),
                       fixed_count |-> acc.fixed_count + 1,
                       stdout |-> Append(acc.stdout,
                           [kind |-> "Fixed", en_name |-> en_name,
                            primary |-> current_primary, sec |-> target_secondary])]
                 ELSE [acc EXCEPT !.spells = Append(@, [k |-> key, v |-> spell])]

(* variant: a fix is made and printed but not counted *)
FixSpell_NoCount(acc, key, spell) ==
    LET en_name == IF "en_name" \in DOMAIN spell THEN spell.en_name ELSE key
    IN  IF en_name \notin DOMAIN DUAL_MAP
        THEN [acc EXCEPT !.spells = Append(@, [k |-> key, v |-> spell])]
        ELSE LET current_primary == Field(spell, "primary_school")
                 target_secondary == TargetSecondary(DUAL_MAP[en_name], current_primary)
             IN  IF Field(spell, "secondary_school") # target_secondary
                 THEN [spells |-> Append(acc.spells,
                           [k |-> key,
                            v |-> ("secondary_school" :> target_secondary) @@
                                  ("is_combo" :> TRUE) @@ spell]),
                       fixed_count |-> acc.fixed_count,
                       stdout |-> Append(acc.stdout,
                           [kind |-> "Fixed", en_name |-> en_name,
                            primary |-> current_primary, sec |-> target_secondary])]
                 ELSE [acc EXCEPT !.spells = Append(@, [k |-> key, v |-> spell])]

(* variant: the secondary school is assigned without comparing it first *)
FixSpell_NoGuard(acc, key, spell) ==
    LET en_name == IF "en_name" \in DOMAIN spell THEN spell.en_name ELSE key
    IN  IF en_name \notin DOMAIN DUAL_MAP
        THEN [acc EXCEPT !.spells = Append(@, [k |-> key, v |-> spell])]
        ELSE LET current_primary == Field(spell, "primary_school")
                 target_secondary == TargetSecondary(DUAL_MAP[en_name], current_primary)
             IN  [spells |-> Append(acc.spells,
                      [k |-> key,
                       v |-> ("secondary_school" :> target_secondary) @@
                             ("is_combo" :> TRUE) @@ spell]),
                  fixed_count |-> acc.fixed_count + 1,
                  stdout |-> Append(acc.stdout,
                      [kind |-> "Fixed", en_name |-> en_name,
                       primary |-> current_primary, sec |-> target_secondary])]

(* lines 88-118: one spell of the catalog; acc = [spells, fixed_count, stdout] *)
FixSpell(acc, key, spell) ==
    LET en_name == IF "en_name" \in DOMAIN spell THEN spell.en_name ELSE key
    IN  IF en_name \notin DOMAIN DUAL_MAP
        THEN [acc EXCEPT !.spells = Append(@, [k |-> key, v |-> spell])]
        ELSE LET current_primary == Field(spell, "primary_school")
                 target_secondary == TargetSecondary(DUAL_MAP[en_name], current_primary)
             IN  IF Field(spell, "secondary_school") # target_secondary
                 THEN [spells |-> Append(acc.spells,
                           [k |-> key,
                            v |-> ("secondary_school" :> target_secondary) @@
                                  ("is_combo" :> TRUE) @@ spell]),
                       fixed_count |-> acc.fixed_count + 1,
                       stdout |-> Append(acc.stdout,
                           [kind |-> "Fixed", en_name |-> en_name,
                            primary |-> current_primary, sec |-> target_secondary])]
                 ELSE [acc EXCEPT !.spells = Append(@, [k |-> key, v |-> spell])]

RECURSIVE FixSpells(_, _, _)
FixSpells(acc, spells, j) ==
    IF j > Len(spells) THEN acc
    ELSE FixSpells(FixSpell(acc, spells[j].k, spells[j].v), spells, j + 1)

(* lines 85-118: acc = [schools, fixed_count, stdout] *)
RECURSIVE FixSchools(_, _, _)
FixSchools(acc, cat, i) ==
    IF i > Len(cat) THEN acc
    ELSE LET r == FixSpells([spells |-> <<>>, fixed_count |-> acc.fixed_count,
                             stdout |-> acc.stdout], cat[i].v.spells, 1)
         IN  FixSchools([schools |-> Append(acc.schools,
                             [k |-> cat[i].k, v |-> [cat[i].v EXCEPT !.spells = r.spells]]),
                         fixed_count |-> r.fixed_count,
                         stdout |-> r.stdout],
                        cat, i + 1)

(* apply_combo_schools.main over a loaded catalog: lines 83-123 *)
ApplyCombo(cat) ==
    LET r == FixSchools([schools |-> <<>>, fixed_count |-> 0, stdout |-> <<>>], cat, 1)
    IN  [r EXCEPT !.stdout = Append(@, [kind |-> "Saved", fixed_count |-> r.fixed_count])]

----------------------------------------------------------------------------
(* The whole passes, as functions of what the wiki serves *)

RECURSIVE ScanTables(_, _, _, _, _)
ScanTables(st, tables, j, mappings, site) ==
    IF j > Len(tables) THEN st
    ELSE ScanTables(ScanTable(st, tables[j], mappings, site), tables, j + 1, mappings, site)

RECURSIVE ScanPages(_, _, _, _, _)
ScanPages(st, pages, i, mappings, site) ==
    IF i > Len(pages) THEN st
    ELSE LET linked == ScanLink(st, pages[i].link)
         IN  ScanPages(IF linked.target_school = None THEN linked
                       ELSE ScanTables(linked, pages[i].tables, 1, mappings, site),
                       pages, i + 1, mappings, site)

(* scrape_schools: lines 165-219 *)
scrape_schools(pages, mappings, site) ==
    ScanPages([schools |-> EmptyDict, target_school |-> None, processed_urls |-> {}],
              pages, 1, mappings, site).schools

RECURSIVE SpecialTables(_, _, _, _, _)
SpecialTables(spells, tables, j, mappings, site) ==
    IF j > Len(tables) THEN spells
    ELSE SpecialTables(Update(spells, parse_skill_table(tables[j], special_school,
                                                        mappings, site)),
                       tables, j + 1, mappings, site)

(* scrape_special_skills: lines 221-236 *)
scrape_special_skills(special, mappings, site) ==
    IF ~special.ok THEN EmptyDict
    ELSE SpecialSection(SpecialTables(EmptyDict, special.tables, 1, mappings, site))

RECURSIVE ComboRowsFrom(_, _, _, _, _)
ComboRowsFrom(spells, combo, i, mappings, site) ==
    IF i > Len(combo) THEN spells
    ELSE ComboRowsFrom(ScanComboRow(spells, combo[i], mappings, site),
                       combo, i + 1, mappings, site)

(* scrape_combo_skills: the spells of its section, lines 238-327 *)
scrape_combo_skills(combo, mappings, site) ==
    ComboRowsFrom(EmptyDict, combo, 1, mappings, site)

(* scrape_all_spells.main: lines 339-397, the schools object it saves *)
ScrapeAll(src, mappings) ==
    LET listed == Update(Update(EmptyDict, scrape_schools(src.pages, mappings, src.site)),
                         scrape_special_skills(src.special, mappings, src.site))
    IN  MergeCombo(listed, BuildLookup(listed),
                   scrape_combo_skills(src.combo, mappings, src.site))

----------------------------------------------------------------------------
(* The wikis the model reads: every listing content of at most MaxRows     *)
(* skill rows and at most MaxPages school links                             *)

SkillRows == {[kind |-> "skill", text |-> a[1], href |-> a[2]] : a \in NameLinks}

HeaderRows == {[kind |-> "header", text |-> t, href |-> ""] : t \in HeaderTexts}

SkillCount(table) == Cardinality({i \in DOMAIN table : table[i].kind = "skill"})

(* the tables of n skill rows: at most MaxRows rows, the last a skill row *)
TablesOf(n) ==
    {t \in UNION {[1..m -> SkillRows \cup HeaderRows] : m \in 1..MaxRows} :
         SkillCount(t) = n /\ t[Len(t)].kind = "skill"}

(* the sequences of tables that hold b skill rows together *)
RECURSIVE TableSeqs(_)
TableSeqs(b) ==
    IF b = 0 THEN {<<>>}
    ELSE UNION {{<<t>> \o rest : t \in TablesOf(n), rest \in TableSeqs(b - n)} :
                    n \in 1..b}

(* the sequences of at most k school pages that hold b skill rows together *)
RECURSIVE PageSeqs(_, _)
PageSeqs(b, k) ==
    (IF b = 0 THEN {<<>>} ELSE {}) \cup
    (IF k = 0 THEN {}
     ELSE UNION {{<<[link |-> l, tables |-> ts]>> \o rest :
                      l \in SchoolLinks, ts \in TableSeqs(n), rest \in PageSeqs(b - n, k - 1)} :
                     n \in 0..b})

(* the special page: not served, or its tables *)
Specials(b) ==
    {[ok |-> TRUE, tables |-> ts] : ts \in TableSeqs(b)} \cup
    (IF b = 0 THEN {[ok |-> FALSE, tables |-> <<>>]} ELSE {})

ComboRows == {[text |-> a[1], href |-> a[2], school1 |-> c[1], school2 |-> c[2]] :
                  a \in NameLinks, c \in SchoolPairs}

(* how rows skill rows can be split over the three listings *)
Splits(rows) == {x \in (0..rows) \X (0..rows) \X (0..rows) : x[1] + x[2] + x[3] <= rows}

Listings(rows, pages) ==
    UNION {[pages : PageSeqs(x[1], pages), special : Specials(x[2]),
            combo : [1..x[3] -> ComboRows]] : x \in Splits(rows)}

(* the skill pages a listing links to *)
TableUrls(tables) ==
    {RuUrl(tables[j][i].href) :
         <<j, i>> \in {y \in (DOMAIN tables) \X (1..MaxRows) :
                          /\ y[2] \in DOMAIN tables[y[1]]
                          /\ tables[y[1]][y[2]].kind = "skill"}}

SkillUrls(l) ==
    UNION {TableUrls(l.pages[i].tables) : i \in DOMAIN l.pages}
        \cup TableUrls(l.special.tables)
        \cup {RuUrl(l.combo[i].href) : i \in DOMAIN l.combo}

Sources(rows, pages) ==
    UNION {{[pages |-> l.pages, special |-> l.special, combo |-> l.combo, site |-> s] :
                s \in [SkillUrls(l) -> PageNames \cup {None}]} :
               l \in Listings(rows, pages)}

NoBatch == [pc |-> "none", run |-> 0]

StartPos == [page |-> 0, table |-> 0, row |-> 0]

----------------------------------------------------------------------------
(* The state machine *)

Init ==
    /\ wiki \in Sources(MaxRows, MaxPages)
    /\ fileState = "absent"
    /\ catalog = EmptyDict
    /\ backupState = "absent"
    /\ backup = EmptyDict
    /\ pc = "idle"
    /\ EXISTING_MAPPINGS = EmptyDict
    /\ data = EmptyDict
    /\ schools = EmptyDict
    /\ target_school = None
    /\ processed_urls = {}
    /\ all_spells = EmptyDict
    /\ spell_lookup = EmptyDict
    /\ fixed_count = 0
    /\ stdout = <<>>
    /\ pos = StartPos
    /\ batch = NoBatch
    /\ infoboxes = EmptyDict

(* python scrape_all_spells.py: the module is imported (line 63) and main   *)
(* runs up to line 345                                                      *)
StartScrape ==
    /\ pc = "idle"
    /\ EXISTING_MAPPINGS' = load_existing_mappings(fileState, catalog)
    /\ backupState' = IF fileState # "absent" THEN fileState ELSE backupState
    /\ backup' = IF fileState # "absent" THEN catalog ELSE backup
    /\ data' = EmptyDict
    /\ schools' = EmptyDict
    /\ target_school' = None
    /\ processed_urls' = {}
    /\ all_spells' = EmptyDict
    /\ spell_lookup' = EmptyDict
    /\ fixed_count' = 0
    /\ stdout' = <<>>
    /\ pos' = StartPos
    /\ batch' = NoBatch
    /\ pc' = "schools"
    /\ UNCHANGED <<wiki, fileState, catalog, infoboxes>>

(* the tables of the school page being read are all read, or it is skipped *)
PageRead ==
    IF pos.page = 0 \/ target_school = None THEN TRUE
    ELSE pos.table = Len(wiki.pages[pos.page].tables)

(* scrape_schools: the next link of the main page *)
SchoolLink ==
    /\ pc = "schools"
    /\ PageRead
    /\ pos.page < Len(wiki.pages)
    /\ LET st == ScanLink([schools |-> schools, target_school |-> target_school,
                           processed_urls |-> processed_urls],
                          wiki.pages[pos.page + 1].link)
       IN  /\ schools' = st.schools
           /\ target_school' = st.target_school
           /\ processed_urls' = st.processed_urls
    /\ pos' = [pos EXCEPT !.page = @ + 1, !.table = 0]
    /\ UNCHANGED <<wiki, fileState, catalog, backupState, backup, pc, EXISTING_MAPPINGS,
                   data, all_spells, spell_lookup, fixed_count, stdout, batch, infoboxes>>

(* scrape_schools: the next table of the current school page *)
SchoolTable ==
    /\ pc = "schools"
    /\ ~PageRead
    /\ schools' = ScanTable([schools |-> schools, target_school |-> target_school,
                             processed_urls |-> processed_urls],
                            wiki.pages[pos.page].tables[pos.table + 1],
                            EXISTING_MAPPINGS, wiki.site).schools
    /\ pos' = [pos EXCEPT !.table = @ + 1]
    /\ UNCHANGED <<wiki, fileState, catalog, backupState, backup, pc, EXISTING_MAPPINGS,
                   data, target_school, processed_urls, all_spells, spell_lookup,
                   fixed_count, stdout, batch, infoboxes>>

(* main, lines 347-348: scrape_schools returns *)
EndSchools ==
    /\ pc = "schools"
    /\ PageRead
    /\ pos.page = Len(wiki.pages)
    /\ data' = Update(data, schools)
    /\ pc' = "special"
    /\ pos' = [pos EXCEPT !.table = 0]
    /\ UNCHANGED <<wiki, fileState, catalog, backupState, backup, EXISTING_MAPPINGS,
                   schools, target_school, processed_urls, all_spells, spell_lookup,
                   fixed_count, stdout, batch, infoboxes>>

(* scrape_special_skills: the next table of the special page *)
SpecialTable ==
    /\ pc = "special"
    /\ wiki.special.ok
    /\ pos.table < Len(wiki.special.tables)
    /\ all_spells' = Update(all_spells,
                            parse_skill_table(wiki.special.tables[pos.table + 1],
                                              special_school, EXISTING_MAPPINGS, wiki.site))
    /\ pos' = [pos EXCEPT !.table = @ + 1]
    /\ UNCHANGED <<wiki, fileState, catalog, backupState, backup, pc, EXISTING_MAPPINGS,
                   data, schools, target_school, processed_urls, spell_lookup,
                   fixed_count, stdout, batch, infoboxes>>

(* main, lines 350-360: scrape_special_skills returns its section, then    *)
(* the lookup is built                                                      *)
EndSpecial ==
    /\ pc = "special"
    /\ wiki.special.ok
    /\ pos.table = Len(wiki.special.tables)
    /\ data' = Update(data, SpecialSection(all_spells))
    /\ spell_lookup' = BuildLookup(data')
    /\ all_spells' = EmptyDict
    /\ pc' = "combo"
    /\ UNCHANGED <<wiki, fileState, catalog, backupState, backup, EXISTING_MAPPINGS,
                   schools, target_school, processed_urls, fixed_count, stdout, pos,
                   batch, infoboxes>>

(* lines 222-223 and 350-360: the special page cannot be fetched, {} is    *)
(* returned, then the lookup is built                                       *)
SpecialFetchFailed ==
    /\ pc = "special"
    /\ ~wiki.special.ok
    /\ spell_lookup' = BuildLookup(data)
    /\ pc' = "combo"
    /\ UNCHANGED <<wiki, fileState, catalog, backupState, backup, EXISTING_MAPPINGS,
                   data, schools, target_school, processed_urls, all_spells,
                   fixed_count, stdout, pos, batch, infoboxes>>

(* scrape_combo_skills: the next row of the combo listing *)
ComboRow ==
    /\ pc = "combo"
    /\ pos.row < Len(wiki.combo)
    /\ all_spells' = ScanComboRow(all_spells, wiki.combo[pos.row + 1],
                                  EXISTING_MAPPINGS, wiki.site)
    /\ pos' = [pos EXCEPT !.row = @ + 1]
    /\ UNCHANGED <<wiki, fileState, catalog, backupState, backup, pc, EXISTING_MAPPINGS,
                   data, schools, target_school, processed_urls, spell_lookup,
                   fixed_count, stdout, batch, infoboxes>>

(* main, lines 363-397: the combo listing is merged into data *)
MergeComboSkills ==
    /\ pc = "combo"
    /\ pos.row = Len(wiki.combo)
    /\ data' = MergeCombo(data, spell_lookup, all_spells)
    /\ stdout' = stdout \o MergeLog(data, spell_lookup, all_spells)
    /\ pc' = "save"
    /\ UNCHANGED <<wiki, fileState, catalog, backupState, backup, EXISTING_MAPPINGS,
                   schools, target_school, processed_urls, all_spells, spell_lookup,
                   fixed_count, pos, batch, infoboxes>>

(* main, lines 399-404: data is written to data/spells.json and the        *)
(* process ends, its variables with it                                      *)
SaveCatalog ==
    /\ pc = "save"
    /\ fileState' = "ok"
    /\ catalog' = data
    /\ pc' = "idle"
    /\ EXISTING_MAPPINGS' = EmptyDict
    /\ data' = EmptyDict
    /\ schools' = EmptyDict
    /\ target_school' = None
    /\ processed_urls' = {}
    /\ all_spells' = EmptyDict
    /\ spell_lookup' = EmptyDict
    /\ pos' = StartPos
    /\ UNCHANGED <<wiki, backupState, backup, fixed_count, stdout, batch, infoboxes>>

(* python apply_combo_schools.py; json.loads (line 82) raises on a file    *)
(* that cannot be parsed and the run ends with a traceback                  *)
ApplyComboSchools ==
    /\ pc = "idle"
    /\ IF fileState = "absent"
       THEN /\ stdout' = <<[kind |-> "NotFound"]>>
            /\ fixed_count' = 0
            /\ UNCHANGED catalog
       ELSE IF fileState = "corrupt"
       THEN /\ stdout' = <<[kind |-> "Traceback"]>>
            /\ fixed_count' = 0
            /\ UNCHANGED catalog
       ELSE LET r == ApplyCombo(catalog)
            IN  /\ catalog' = r.schools
                /\ fixed_count' = r.fixed_count
                /\ stdout' = r.stdout
    /\ batch' = NoBatch
    /\ UNCHANGED <<wiki, fileState, backupState, backup, pc, EXISTING_MAPPINGS, data,
                   schools, target_school, processed_urls, all_spells, spell_lookup,
                   pos, infoboxes>>

(* data/spells.json is left unparseable (a write cut short, an edit by     *)
(* hand): the case the loaders meet at json.load                            *)
CorruptFile ==
    /\ pc = "idle"
    /\ fileState = "ok"
    /\ fileState' = "corrupt"
    /\ catalog' = EmptyDict
    /\ UNCHANGED <<wiki, backupState, backup, pc, EXISTING_MAPPINGS, data, schools,
                   target_school, processed_urls, all_spells, spell_lookup, fixed_count,
                   stdout, pos, batch, infoboxes>>

Next ==
    \/ StartScrape
    \/ SchoolLink
    \/ SchoolTable
    \/ EndSchools
    \/ SpecialTable
    \/ EndSpecial
    \/ SpecialFetchFailed
    \/ ComboRow
    \/ MergeComboSkills
    \/ SaveCatalog
    \/ ApplyComboSchools
    \/ CorruptFile

Spec == Init /\ [][Next]_vars

----------------------------------------------------------------------------
(* Reading a schools object *)

(* the stored spells: <<school key, spell key, spell>> *)
Entries(cat) ==
    UNION {{<<cat[i].k, cat[i].v.spells[j].k, cat[i].v.spells[j].v>> :
                j \in DOMAIN cat[i].v.spells} : i \in DOMAIN cat}

(* the name the contrast pass looks a stored spell up by: line 88 *)
NameOf(e) == IF "en_name" \in DOMAIN e[3] THEN e[3].en_name ELSE e[2]

IsCombo(spell) == "is_combo" \in DOMAIN spell /\ spell.is_combo = TRUE

(* the last script to finish was the contrast pass, over a loaded catalog *)
AfterContrast ==
    /\ pc = "idle"
    /\ fileState = "ok"
    /\ stdout # <<>>
    /\ stdout[Len(stdout)].kind = "Saved"

----------------------------------------------------------------------------
(* C1: once a contrast pass has run over the catalog, running the pass on   *)
(* the catalog it left changes no spell and counts no fix.                  *)
C1_SecondPassNoOp ==
    AfterContrast =>
        /\ ApplyCombo(catalog).schools = catalog
        /\ ApplyCombo(catalog).fixed_count = 0

(* a contrast pass that fixed nothing, over a spell whose secondary only a  *)
(* contrast pass can have set (the wiki has no combo listing)               *)
C1_Witness ==
    /\ AfterContrast
    /\ fixed_count = 0
    /\ wiki.combo = <<>>
    /\ \E e \in Entries(catalog) :
         NameOf(e) \in DOMAIN DUAL_MAP /\ "secondary_school" \in DOMAIN e[3]

(* C2: after the contrast pass every stored spell of the pair table whose   *)
(* primary is one member of its pair has the other member as secondary, and *)
(* no spell of the pair table has its primary as secondary.                 *)
C2_ContrastCorrect ==
    AfterContrast =>
        \A e \in Entries(catalog) :
            NameOf(e) \in DOMAIN DUAL_MAP =>
                LET pair == DUAL_MAP[NameOf(e)]
                    primary == Field(e[3], "primary_school")
                    secondary == Field(e[3], "secondary_school")
                IN  /\ primary = pair[1] => secondary = pair[2]
                    /\ primary = pair[2] => secondary = pair[1]
                    /\ secondary # primary

(* the pass has fixed a spell whose primary is the second member of its pair *)
C2_Witness ==
    /\ AfterContrast
    /\ \E i \in DOMAIN stdout :
         /\ stdout[i].kind = "Fixed"
         /\ stdout[i].primary = DUAL_MAP[stdout[i].en_name][2]
         /\ stdout[i].sec = DUAL_MAP[stdout[i].en_name][1]

(* C3: every stored spell with is_combo set has a secondary school, and it  *)
(* differs from its primary school.                                         *)
C3_ComboHasOtherSchool ==
    fileState = "ok" =>
        \A e \in Entries(catalog) :
            IsCombo(e[3]) =>
                /\ Field(e[3], "secondary_school") \notin {None, ""}
                /\ Field(e[3], "secondary_school") # Field(e[3], "primary_school")

(* C4: no spell key is in the spells of two schools of the catalog.         *)
C4_OneSchoolPerSpell ==
    fileState = "ok" =>
        \A e1 \in Entries(catalog), e2 \in Entries(catalog) :
            e1[2] = e2[2] => e1[1] = e2[1]

(* C5: a record held by scrape_schools keeps its non-empty ru_name, en_name *)
(* and tier for as long as it is held.                                      *)
C5_FillOnlyKept ==
    [][\A e1 \in Entries(schools) : \A e2 \in Entries(schools') :
           (e1[1] = e2[1] /\ e1[2] = e2[2]) =>
               \A f \in {"ru_name", "en_name", "tier"} :
                   e1[3][f] # "" => e2[3][f] = e1[3][f]]_vars

(* C8: when the special pass or the combo merge brings a record with an     *)
(* en_url for a name stored with an empty en_url, every record stored under *)
(* that name has an en_url afterwards.                                      *)
C8_UrlFilled ==
    [][((pc = "special" /\ pc' = "combo") \/ (pc = "combo" /\ pc' = "save")) =>
           \A e \in Entries(data) :
               (/\ Field(e[3], "en_url") = ""
                /\ Has(all_spells, e[2])
                /\ Field(Get(all_spells, e[2]), "en_url") \notin {None, ""}) =>
                   \A e2 \in Entries(data') :
                       e2[2] = e[2] => Field(e2[3], "en_url") \notin {None, ""}]_vars

(* C9: after the contrast pass, its output names every stored spell of the  *)
(* pair table whose primary school is no member of its pair.                *)
C9_InconsistencyReported ==
    AfterContrast =>
        \A e \in Entries(catalog) :
            (/\ NameOf(e) \in DOMAIN DUAL_MAP
             /\ Field(e[3], "primary_school") \notin
                    {DUAL_MAP[NameOf(e)][1], DUAL_MAP[NameOf(e)][2]}) =>
                \E i \in DOMAIN stdout :
                    stdout[i].kind = "Fixed" /\ stdout[i].en_name = NameOf(e)

----------------------------------------------------------------------------
(* Comparing schools objects by content, whatever the order of their keys *)

SchoolHeads(cat) ==
    {<<cat[i].k, [f \in (DOMAIN cat[i].v) \ {"spells"} |-> cat[i].v[f]]>> : i \in DOMAIN cat}

SameCatalog(c1, c2) ==
    Entries(c1) = Entries(c2) /\ SchoolHeads(c1) = SchoolHeads(c2)

(* the orders a sequence can be read in *)
Perms(seq) ==
    {[i \in DOMAIN seq |-> seq[p[i]]] :
         p \in {q \in [DOMAIN seq -> DOMAIN seq] :
                    \A i \in DOMAIN seq, j \in DOMAIN seq : i # j => q[i] # q[j]}}

(* the wikis that list what src lists, the tables of each page, the tables  *)
(* of the special page and the rows of the combo listing in any order       *)
Reordered(src) ==
    {[src EXCEPT !.pages = [i \in DOMAIN src.pages |->
                                [src.pages[i] EXCEPT !.tables = ts[i]]],
                 !.special.tables = sp,
                 !.combo = cb] :
         ts \in {g \in [DOMAIN src.pages ->
                            UNION {Perms(src.pages[i].tables) : i \in DOMAIN src.pages}] :
                     \A i \in DOMAIN src.pages : g[i] \in Perms(src.pages[i].tables)},
         sp \in Perms(src.special.tables),
         cb \in Perms(src.combo)}

(* C6: when the pipeline (scrape, then contrast pass) runs over the catalog *)
(* an earlier pipeline run left, against the same wiki, it leaves the       *)
(* catalog that run left. The earlier catalog is the backup the scrape took.*)
C6_RerunSameCatalog ==
    (/\ AfterContrast
     /\ backupState = "ok"
     /\ ApplyCombo(backup).fixed_count = 0) => SameCatalog(catalog, backup)

(* C7: the schools object the scrape is about to save is the one it would   *)
(* save had the wiki listed the same tables and rows in another order.      *)
C7_OrderIndependent ==
    pc = "save" =>
        \A src \in Reordered(wiki) : SameCatalog(ScrapeAll(src, EXISTING_MAPPINGS), data)

(* the scrape, taken step by step, computes what ScrapeAll computes at once *)
StepsAgree == pc = "save" => data = ScrapeAll(wiki, EXISTING_MAPPINGS)

----------------------------------------------------------------------------
(* batch_fetch_infoboxes.py *)

(* runs of the infobox batch in one behaviour *)
MaxBatchRuns == 1

prefer_ru == {"Kannibalizm"}

(* sys.argv[1], or None *)
BatchTargets == {None, NECRO}

(* quote_plus(spell_name) joined to BASE_URL: lines 37-38 *)
SlugUrl(spell_name) ==
    CASE spell_name = "Corpse Explosion" ->
             "https://divinityoriginalsin2.wiki.fextralife.com/Corpse+Explosion"
      [] spell_name = "Bless" -> "https://divinityoriginalsin2.wiki.fextralife.com/Bless"
      [] spell_name = "Vzryv trupa" ->
             "https://divinityoriginalsin2.wiki.fextralife.com/Vzryv+trupa"
      [] OTHER -> "https://divinityoriginalsin2.wiki.fextralife.com/"

(* build_url; every en_url the scrape stores is absolute *)
build_url(spell_name, en_url) ==
    IF en_url \notin {None, ""} THEN en_url ELSE SlugUrl(spell_name)

(* load_spells: the spells of one school, in order *)
RECURSIVE LoadSchool(_, _)
LoadSchool(spells, j) ==
    IF j > Len(spells) THEN <<>>
    ELSE <<[name |-> spells[j].k,
            en_url |-> Field(spells[j].v, "en_url"),
            ru_url |-> Field(spells[j].v, "ru_url")]>> \o LoadSchool(spells, j + 1)

RECURSIVE LoadFrom(_, _, _)
LoadFrom(cat, target, i) ==
    IF i > Len(cat) THEN <<>>
    ELSE (IF target # None /\ cat[i].k # target THEN <<>>
          ELSE LoadSchool(cat[i].v.spells, 1)) \o LoadFrom(cat, target, i + 1)

load_spells(cat, target) == LoadFrom(cat, target, 1)

(* how fetch_infobox ends: with None (the request fails or the page has no *)
(* infobox), or with the infobox, which has an icon or has none             *)
InfoboxOutcomes == {"none", "infobox", "infobox_icon"}

(* fetch_infobox: lines 126-144 *)
fetch_infobox(url, outcome) ==
    [url |-> url,
     infobox_html |-> "html",
     icon |-> IF outcome = "infobox_icon" THEN "en_icon" ELSE None]

(* what fetch_ru_icon returns *)
IconOutcomes == {None, "ru_icon"}

(* lines 216-234: the result of one spell from what the two fetches gave *)
SpellResult(spell, outcome, ru_icon) ==
    LET url == build_url(spell.name, spell.en_url)
        result == IF outcome = "none"
                  THEN [url |-> url, infobox_html |-> "", icon |-> None]
                  ELSE fetch_infobox(url, outcome)
    IN  IF /\ spell.ru_url \notin {None, ""}
           /\ ru_icon # None
           /\ (spell.name \in prefer_ru \/ result.icon = None)
        THEN [result EXCEPT !.icon = ru_icon]
        ELSE result

(* variant: only an infobox counts as data *)
HasData_InfoboxOnly(result) == result.infobox_html # ""

(* result.get("infobox_html") or result.get("icon"): line 236 *)
HasData(result) == result.infobox_html # "" \/ result.icon # None

(* main up to line 207; a missing spells.json ends the run with 1, and one *)
(* that cannot be parsed ends it at json.load (line 163) with a traceback   *)
BatchStart ==
    /\ pc = "idle"
    /\ batch.pc \in {"none", "done"}
    /\ batch.run < MaxBatchRuns
    /\ \E target \in BatchTargets :
         batch' = IF fileState = "absent"
                  THEN [pc |-> "done", run |-> batch.run + 1, loaded |-> FALSE,
                        spells |-> <<>>, i |-> 0, results |-> EmptyDict, errors |-> 0,
                        fetched |-> <<>>, out |-> <<[kind |-> "Error"]>>, exit_code |-> 1]
                  ELSE IF fileState = "corrupt"
                  THEN [pc |-> "done", run |-> batch.run + 1, loaded |-> FALSE,
                        spells |-> <<>>, i |-> 0, results |-> EmptyDict, errors |-> 0,
                        fetched |-> <<>>, out |-> <<[kind |-> "Traceback"]>>,
                        exit_code |-> 1]
                  ELSE [pc |-> "loop", run |-> batch.run + 1, loaded |-> TRUE,
                        spells |-> load_spells(catalog, target), i |-> 0,
                        results |-> EmptyDict, errors |-> 0,
                        fetched |-> <<>>, out |-> <<>>]
    /\ UNCHANGED <<wiki, fileState, catalog, backupState, backup, pc, EXISTING_MAPPINGS,
                   data, schools, target_school, processed_urls, all_spells, spell_lookup,
                   fixed_count, stdout, pos, infoboxes>>

(* lines 212-243: one turn of the loop; batch.fetched keeps what the wikis  *)
(* gave for each spell: an infobox or none, an icon or none                 *)
BatchSpell ==
    /\ batch.pc = "loop"
    /\ batch.i < Len(batch.spells)
    /\ LET spell == batch.spells[batch.i + 1]
       IN  \E outcome \in InfoboxOutcomes, ru_icon \in IconOutcomes :
             LET result == SpellResult(spell, outcome, ru_icon)
                 got == [infobox |-> outcome # "none",
                         icon |-> outcome = "infobox_icon" \/
                                  (spell.ru_url \notin {None, ""} /\ ru_icon # None)]
             IN  batch' = IF HasData(result)
                          THEN [batch EXCEPT
                                    !.i = @ + 1,
                                    !.fetched = Append(@, got),
                                    !.results = Put(@, spell.name, result),
                                    !.out = Append(@, [kind |-> "OK", i |-> batch.i + 1,
                                                       name |-> spell.name])]
                          ELSE [batch EXCEPT
                                    !.i = @ + 1,
                                    !.fetched = Append(@, got),
                                    !.errors = @ + 1,
                                    !.out = Append(@, [kind |-> "FAILED", i |-> batch.i + 1,
                                                       name |-> spell.name])]
    /\ UNCHANGED <<wiki, fileState, catalog, backupState, backup, pc, EXISTING_MAPPINGS,
                   data, schools, target_school, processed_urls, all_spells, spell_lookup,
                   fixed_count, stdout, pos, infoboxes>>

(* lines 245-252: save_infoboxes, then the exit code *)
BatchEnd ==
    /\ batch.pc = "loop"
    /\ batch.i = Len(batch.spells)
    /\ infoboxes' = Update(infoboxes, batch.results)
    /\ batch' = ("exit_code" :> (IF batch.errors = 0 THEN 0 ELSE 2)) @@
                 [batch EXCEPT !.pc = "done"]
    /\ UNCHANGED <<wiki, fileState, catalog, backupState, backup, pc, EXISTING_MAPPINGS,
                   data, schools, target_school, processed_urls, all_spells, spell_lookup,
                   fixed_count, stdout, pos>>

(* The batch over the catalogs a scrape of the wiki, or a scrape and the    *)
(* contrast pass, leaves; or with no catalog written yet, or an unparseable *)
(* one                                                                      *)
InitBatch ==
    /\ wiki \in Sources(MaxRows, MaxPages)
    /\ fileState \in {"absent", "ok", "corrupt"}
    /\ catalog \in (IF fileState # "ok" THEN {EmptyDict}
                    ELSE {ScrapeAll(wiki, EmptyDict),
                          ApplyCombo(ScrapeAll(wiki, EmptyDict)).schools})
    /\ backupState = "absent"
    /\ backup = EmptyDict
    /\ pc = "idle"
    /\ EXISTING_MAPPINGS = EmptyDict
    /\ data = EmptyDict
    /\ schools = EmptyDict
    /\ target_school = None
    /\ processed_urls = {}
    /\ all_spells = EmptyDict
    /\ spell_lookup = EmptyDict
    /\ fixed_count = 0
    /\ stdout = <<>>
    /\ pos = StartPos
    /\ batch = NoBatch
    /\ infoboxes = EmptyDict

NextBatch ==
    \/ BatchStart
    \/ BatchSpell
    \/ BatchEnd

SpecBatch == InitBatch /\ [][NextBatch]_vars

----------------------------------------------------------------------------
IsSpellLine(line) == line.kind \in {"OK", "FAILED"}

(* the loop printed one line for each loaded spell, in order *)
ProcessedOnce ==
    LET lines == SelectSeq(batch.out, IsSpellLine)
    IN  /\ Len(lines) = Len(batch.spells)
        /\ \A i \in DOMAIN lines :
             lines[i].i = i /\ lines[i].name = batch.spells[i].name

(* the spells the wikis gave neither an infobox nor an icon for *)
Unfetched == {i \in DOMAIN batch.fetched :
                  ~batch.fetched[i].infobox /\ ~batch.fetched[i].icon}

BatchAccounted ==
    /\ ProcessedOnce
    /\ Len(batch.fetched) = Len(batch.spells)
    /\ batch.errors = Cardinality(Unfetched)
    /\ batch.exit_code # 0 <=> batch.errors > 0

----------------------------------------------------------------------------
(* C11: no script ends with a traceback on a data/spells.json that cannot   *)
(* be parsed: the name lookup, the contrast pass and the infobox batch each *)
(* go on as with no catalog. Stated here for the scripts of Spec.           *)
C11_CorruptAsAbsent ==
    \A i \in DOMAIN stdout : stdout[i].kind # "Traceback"

----------------------------------------------------------------------------
(* The contrast pass over any catalog of one spell: apply_combo_schools.py  *)
(* reads whatever data/spells.json holds, also what no scrape wrote.        *)

(* a wiki that lists nothing *)
EmptyWiki ==
    [pages |-> <<>>, special |-> [ok |-> FALSE, tables |-> <<>>], combo |-> <<>>,
     site |-> <<>>]

(* the names, primary schools and secondary schools of the stored spell *)
StoredNames == (DOMAIN DUAL_MAP) \cup {"Bless"}

StoredPrimaries == (DOMAIN RU_TO_EN_SCHOOL) \cup {special_school, "Istochnik"}

StoredSecondaries == DOMAIN RU_TO_EN_SCHOOL

(* the records a catalog can hold for a spell: secondary_school and         *)
(* is_combo are optional fields                                             *)
StoredSpells ==
    LET base == {[en_name |-> n, ru_name |-> "Vzryv trupa", tier |-> "Novice",
                  primary_school |-> p] : n \in StoredNames, p \in StoredPrimaries}
        withSecondary == base \cup
            {("secondary_school" :> x) @@ b : x \in StoredSecondaries, b \in base}
    IN  withSecondary \cup {("is_combo" :> c) @@ b : c \in BOOLEAN, b \in withSecondary}

(* the catalog that holds one spell, in the school of its primary *)
CatalogOf(spell) ==
    <<[k |-> spell.primary_school,
       v |-> [en_name |-> spell.primary_school,
              spells |-> <<[k |-> spell.en_name, v |-> spell]>>]]>>

InitContrast ==
    /\ wiki = EmptyWiki
    /\ fileState = "ok"
    /\ catalog \in {CatalogOf(spell) : spell \in StoredSpells}
    /\ backupState = "absent"
    /\ backup = EmptyDict
    /\ pc = "idle"
    /\ EXISTING_MAPPINGS = EmptyDict
    /\ data = EmptyDict
    /\ schools = EmptyDict
    /\ target_school = None
    /\ processed_urls = {}
    /\ all_spells = EmptyDict
    /\ spell_lookup = EmptyDict
    /\ fixed_count = 0
    /\ stdout = <<>>
    /\ pos = StartPos
    /\ batch = NoBatch
    /\ infoboxes = EmptyDict

NextContrast == ApplyComboSchools

SpecContrast == InitContrast /\ [][NextContrast]_vars

(* the elemental schools; the other schools of the pair table are the       *)
(* class-style ones                                                         *)
Elemental == {AERO, GEO, HYDRO, PYRO}

C20_PairSpellsAreCombo ==
    AfterContrast =>
        \A e \in Entries(catalog) :
            NameOf(e) \in DOMAIN DUAL_MAP =>
                /\ IsCombo(e[3])
                /\ Field(e[3], "secondary_school") \in
                       {DUAL_MAP[NameOf(e)][1], DUAL_MAP[NameOf(e)][2]}

----------------------------------------------------------------------------
(* C13: after the contrast pass the catalog holds a record for every spell  *)
(* the pair table names, one it did not hold being created with the         *)
(* elemental member of its pair as primary school.                          *)
C13_AbsentTargetCreated ==
    AfterContrast =>
        \A name \in DOMAIN DUAL_MAP :
            \E e \in Entries(catalog) :
                NameOf(e) = name /\ Field(e[3], "primary_school") # None

(* the school a combo spell found nowhere is filed in *)
OrphanHome(d, spell_data) ==
    IF Has(d, spell_data.primary_school) THEN spell_data.primary_school ELSE combo_school

(* the combo spells of the listing that no school of data holds *)
Orphans == {i \in DOMAIN all_spells : ~Has(spell_lookup, all_spells[i].k)}

(* C14: the merge files each combo spell that no school holds in one        *)
(* school: its primary school when data has it, otherwise the bucket, which *)
(* exists afterwards only if such a spell was filed in it; for each spell   *)
(* filed in the bucket a warning names the spell and its primary school.    *)
C14_OrphanFiled ==
    [][(pc = "combo" /\ pc' = "save") =>
           /\ \A i \in Orphans :
                LET name == all_spells[i].k
                    spell_data == all_spells[i].v
                    home == OrphanHome(data, spell_data)
                IN  /\ {e[1] : e \in {x \in Entries(data') : x[2] = name}} = {home}
                    /\ Get(Get(data', home).spells, name) = spell_data
                    /\ home = combo_school =>
                           \E j \in DOMAIN stdout' :
                               /\ stdout'[j].kind = "Warning"
                               /\ stdout'[j].name = name
                               /\ stdout'[j].primary = spell_data.primary_school
           /\ Has(data', combo_school) <=>
                  \E i \in Orphans : OrphanHome(data, all_spells[i].v) = combo_school]_vars

(* the merge has filed one combo spell in its primary school and another,   *)
(* with a warning, in the bucket                                            *)
C14_Witness ==
    /\ pc = "save"
    /\ Has(data, combo_school)
    /\ \E j \in DOMAIN stdout : stdout[j].kind = "Warning"
    /\ \E e \in Entries(data) :
         /\ e[1] = PYRO
         /\ IsCombo(e[3])
         /\ e[3].tier = "Kombinirovannye"

(* C15: every stored spell is in one school only, and that school's key is  *)
(* the spell's primary_school.                                              *)
C15_ContainerIsPrimary ==
    fileState = "ok" =>
        \A e \in Entries(catalog) :
            /\ e[1] = Field(e[3], "primary_school")
            /\ \A e2 \in Entries(catalog) : e2[2] = e[2] => e2[1] = e[1]

(* what the contrast pass may change of a spell *)
ContrastFields == {"secondary_school", "is_combo"}

SameButContrast(old, new) ==
    /\ (DOMAIN new) \ ContrastFields = (DOMAIN old) \ ContrastFields
    /\ \A f \in (DOMAIN old) \ ContrastFields : new[f] = old[f]

(* c2 has the schools of c1 with the same spell keys, each spell the same   *)
(* but for the contrast fields of the spells named in the pair table        *)
ContrastFrame(c1, c2) ==
    /\ Len(c2) = Len(c1)
    /\ \A i \in DOMAIN c1 :
         /\ c2[i].k = c1[i].k
         /\ SchoolHeads(<<c2[i]>>) = SchoolHeads(<<c1[i]>>)
         /\ Len(c2[i].v.spells) = Len(c1[i].v.spells)
         /\ \A j \in DOMAIN c1[i].v.spells :
              LET old == c1[i].v.spells[j]
                  new == c2[i].v.spells[j]
              IN  /\ new.k = old.k
                  /\ SameButContrast(old.v, new.v)
                  /\ NameOf(<<c1[i].k, old.k, old.v>>) \notin DOMAIN DUAL_MAP =>
                         new.v = old.v

(* C16: a run of apply_combo_schools changes nothing of the catalog but the *)
(* secondary_school and is_combo of spells named in the pair table.         *)
C16_ContrastFrame ==
    [][ApplyComboSchools => ContrastFrame(catalog, catalog')]_vars

(* the pass has fixed a spell of a catalog that also holds a spell the pair *)
(* table does not name                                                      *)
C16_Witness ==
    /\ AfterContrast
    /\ fixed_count > 0
    /\ \E e \in Entries(catalog) : NameOf(e) \notin DOMAIN DUAL_MAP

----------------------------------------------------------------------------
(* the spell keys of a schools object *)
SpellKeys(cat) == {e[2] : e \in Entries(cat)}

(* C17: every spell key of the catalog a scrape run found on disk (kept in  *)
(* spells.json.bak) is a spell key of the catalog it left.                  *)
C17_NoSpellDeleted ==
    (pc = "idle" /\ fileState = "ok" /\ backupState = "ok") =>
        SpellKeys(backup) \subseteq SpellKeys(catalog)

(* the tables of the school pages and of the special page *)
WikiTables ==
    UNION {{wiki.pages[i].tables[j] : j \in DOMAIN wiki.pages[i].tables} :
               i \in DOMAIN wiki.pages}
        \cup {wiki.special.tables[j] : j \in DOMAIN wiki.special.tables}

SkillIndexes(table) == {i \in DOMAIN table : table[i].kind = "skill"}

(* the sites that serve other skill pages under the same urls *)
OtherSites == [DOMAIN wiki.site -> PageNames \cup {None}]

(* the identifier the chain gives a listed name: the lookup's entry, else   *)
(* the name its page states, else the listed name itself                    *)
ChainName(ru_name, ru_url) ==
    IF Has(EXISTING_MAPPINGS, ru_name) THEN Get(EXISTING_MAPPINGS, ru_name)
    ELSE IF wiki.site[ru_url] # None THEN wiki.site[ru_url]
    ELSE ru_name

Unresolved(ru_name, ru_url) ==
    ~Has(EXISTING_MAPPINGS, ru_name) /\ wiki.site[ru_url] = None

(* a record is stored under the chain's identifier; with a lookup entry it  *)
(* is the same whatever the skill page states; unresolved, it has the       *)
(* listed name as en_name and an empty en_url                               *)
ChainRecord(rec, recOn(_), ru_name, ru_url) ==
    /\ rec.en_name = ChainName(ru_name, ru_url)
    /\ rec.ru_name = ru_name
    /\ Has(EXISTING_MAPPINGS, ru_name) => \A s \in OtherSites : recOn(s) = rec
    /\ Unresolved(ru_name, ru_url) => rec.en_name = ru_name /\ rec.en_url = ""

(* C18: while a scrape runs, every listed row resolves by the chain (lookup *)
(* entry, else enrichment, else the listed name with an empty en_url), and  *)
(* every row of a table yields its record whatever the rows before it did.  *)
C18_NameChain ==
    pc # "idle" =>
        /\ \A t \in WikiTables :
             /\ Keys(parse_skill_table(t, special_school, EXISTING_MAPPINGS, wiki.site)) =
                    {ChainName(StripGeneral(t[i].text), RuUrl(t[i].href)) :
                         i \in SkillIndexes(t)}
             /\ \A i \in SkillIndexes(t) :
                  LET One(s) == parse_skill_table(<<t[i]>>, special_school,
                                                  EXISTING_MAPPINGS, s)
                      RecOn(s) == One(s)[1].v
                  IN  /\ Len(One(wiki.site)) = 1
                      /\ One(wiki.site)[1].k = RecOn(wiki.site).en_name
                      /\ ChainRecord(RecOn(wiki.site), RecOn,
                                     StripGeneral(t[i].text), RuUrl(t[i].href))
        /\ \A i \in DOMAIN wiki.combo :
             LET RecOn(s) == ComboSpell(wiki.combo[i], EXISTING_MAPPINGS, s)
             IN  ChainRecord(RecOn(wiki.site), RecOn,
                             StripCombo(wiki.combo[i].text), RuUrl(wiki.combo[i].href))

(* a scrape reads a row whose lookup entry differs from what its page      *)
(* states, so that the lookup decides its identifier                        *)
C18_Witness ==
    /\ pc = "schools"
    /\ \E t \in WikiTables : \E i \in SkillIndexes(t) :
         /\ Has(EXISTING_MAPPINGS, StripGeneral(t[i].text))
         /\ wiki.site[RuUrl(t[i].href)] \notin
                {None, Get(EXISTING_MAPPINGS, StripGeneral(t[i].text))}

(* the spells whose secondary_school differs between two schools objects    *)
(* of the same shape                                                        *)
SecondaryChanged(c1, c2) ==
    {x \in UNION {{<<i, j>> : j \in DOMAIN c1[i].v.spells} : i \in DOMAIN c1} :
         Field(c1[x[1]].v.spells[x[2]].v, "secondary_school") #
         Field(c2[x[1]].v.spells[x[2]].v, "secondary_school")}

(* C19: the count a contrast pass over a loaded catalog reports is the      *)
(* number of spells whose secondary_school the pass changed, and is 0       *)
(* exactly when the pass left the catalog as it was.                        *)
C19_CounterExact ==
    [][(ApplyComboSchools /\ fileState = "ok") =>
           /\ fixed_count' = Cardinality(SecondaryChanged(catalog, catalog'))
           /\ stdout'[Len(stdout')] = [kind |-> "Saved", fixed_count |-> fixed_count']
           /\ fixed_count' = 0 <=> catalog' = catalog]_vars

(* a pass has changed the secondary school of two stored spells *)
C19_Witness ==
    /\ AfterContrast
    /\ fixed_count = 2
    /\ Cardinality({e \in Entries(catalog) : NameOf(e) \in DOMAIN DUAL_MAP}) = 2

====
